---- MODULE Spec2Model ----
(***************************************************************************)
(* The cyclic countdown timer of the repository, in its three variants:   *)
(*   "inline" : function component with inline effects  (Timer.tsx 44-168) *)
(*   "hook"   : Timer built on the useTimer custom hook  (use-timer.ts)    *)
(*   "class"  : class component with lifecycle methods  (Timer.tsx 237-420)*)
(* React is modelled by what it does with the component's code: state     *)
(* updates are queued by setState / setCountLeft and applied in order by  *)
(* the next render; passive effects (useEffect) run after the render that *)
(* scheduled them and before the next one; componentDidUpdate runs inside *)
(* the commit, and a setState made there is rendered synchronously.       *)
(***************************************************************************)
EXTENDS Integers, Sequences, FiniteSets, TLC

VARIABLES
    variant,        \* which of the three implementations this instance is
    props,          \* props.maxCount as last passed by the host: {} (omitted) or {m}
    initialCount,   \* class field initialCount (0 and unused in the function variants)
    countLeft,      \* the committed (last rendered) counter state
    queue,          \* state updates queued by setState, not yet rendered
    pending,        \* "none" | "passive" (boundary effect scheduled) | "sync" (setState in componentDidUpdate)
    status,         \* "rendered" | "strictMounted" | "strictUnmounted" | "mounted" | "unmounted"
    timerId,        \* the stored interval handle: {} (null) or {id}
    live,           \* host: ids of intervals registered and not cancelled
    nextId,         \* host: next id setInterval hands out
    inflight,       \* host: ids whose firing is queued as a timer task
    cancels,        \* history: number of intervals actually cancelled by clearInterval
    deactivations,  \* history: how often the deactivation path ran after the real unmount
    dropped,        \* history: a queued firing was discarded because its interval was cancelled
    propsFixed,     \* history: the host never changed maxCount
    serial,         \* history: no reset, and every tick was delivered to a settled timer
    ticks,          \* history: ticks delivered while serial
    step,           \* history: the last operation
    trio,           \* the three variants side by side, driven by the same events
    pc,             \* scripts: the position of the running script
    env,            \* scripts: the script's variables and promises
    log,            \* scripts: the console lines written so far
    tasks           \* scripts: pending timers and the microtask queue

scriptVars == <<pc, env, log, tasks>>
timerVars == <<variant, props, initialCount, countLeft, queue, pending, status, timerId,
               live, nextId, inflight, cancels, deactivations, dropped, propsFixed,
               serial, ticks, step, trio>>
vars == <<timerVars, scriptVars>>

(* ------------------------------ bounds -------------------------------- *)
MaxQueue == 3           \* updates that may be queued before a render
MaxBelow == 2           \* how far below zero the counter is followed
MaxTicks == 7           \* ticks counted by the history variable ticks
MaxDeactivations == 2   \* invocations of the deactivation path on one instance
MaxIntervals == 2       \* intervals one instance may register by direct calls
MaxReject == 4          \* rejectList is drawn from the subsets of 1..MaxReject

(* ----------------------------- constants ------------------------------ *)
DefaultMaxCount == 60
RandomScale == 100      \* Math.floor(Math.random() * 100): Math.random() in hundredths

Variants == {"inline", "hook", "class"}
PropValues == {{}, {0}, {1}, {3}}

(* maxCount = 60 default parameter / props.maxCount ?? 60 *)
MaxCountOfNoDefault(p) == IF p = {} THEN 0 ELSE CHOOSE m \in p : TRUE
MaxCountOfOr(p) == IF p = {} \/ p = {0} THEN DefaultMaxCount ELSE CHOOSE m \in p : TRUE
MaxCountOf(p) == IF p = {} THEN DefaultMaxCount ELSE CHOOSE m \in p : TRUE

(* the cycle length the instance resets to *)
CycleLength == IF variant = "class" THEN initialCount ELSE MaxCountOf(props)

(* --------------------------- state updates ---------------------------- *)
Dec == [src |-> "tick", fn |-> "dec", val |-> 0]
Write(v) == [src |-> "write", fn |-> "set", val |-> v]

(* the updater (c) => c - 1 *)
decrementUp(c) == c + 1
decrement(c) == c - 1

ApplyUpdate(u, c) == IF u.fn = "dec" THEN decrement(c) ELSE u.val

RECURSIVE ApplyAll(_, _)
ApplyAll(q, c) == IF q = <<>> THEN c ELSE ApplyAll(Tail(q), ApplyUpdate(Head(q), c))

(* setCountLeft((c) => c - 1) / this.setState((state) => ...countLeft - 1) *)
tickStale(q) == Append(q, [src |-> "tick", fn |-> "set", val |-> countLeft - 1])
tick(q) == Append(q, Dec)

(* function variants: setCountLeft(maxCount), maxCount of the latest render *)
resetOffByOne(q) == Append(q, Write(MaxCountOf(props) - 1))
resetDefault(q) == Append(q, Write(DefaultMaxCount))
reset(q) == Append(q, Write(MaxCountOf(props)))

(* class variant: this.setState({ countLeft: this.initialCount }) *)
classResetProps(q) == Append(q, Write(MaxCountOf(props)))
classReset(q) == Append(q, Write(initialCount))

(* ------------------------------- host --------------------------------- *)
SetInterval ==
    /\ timerId' = {nextId}
    /\ live' = live \cup {nextId}
    /\ nextId' = nextId + 1
    /\ UNCHANGED cancels

ClearInterval(h) ==
    /\ live' = live \ h
    /\ cancels' = cancels + Cardinality(h \cap live)
    /\ UNCHANGED <<timerId, nextId>>

(* ---------------------------- lifecycle code -------------------------- *)
(* useEffect(() => { const timerId = setInterval(tick, 1000); ... }, []) *)
intervalEffect == SetInterval

(* }, [])  the interval effect has no dependencies: an update does not re-run it *)
intervalEffectEveryRender ==
    /\ live' = (live \ timerId) \cup {nextId}
    /\ cancels' = cancels + Cardinality(timerId \cap live)
    /\ timerId' = {nextId}
    /\ nextId' = nextId + 1
intervalEffectOnUpdate == UNCHANGED <<timerId, live, nextId, cancels>>

(* return () => clearInterval(timerId) *)
intervalCleanupMissing == UNCHANGED <<live, cancels, timerId, nextId>>
intervalCleanup == ClearInterval(timerId)

(* useEffect(() => { if (countLeft === 0) setCountLeft(maxCount) }) *)
boundaryEffectNegative(q) == IF countLeft < 0 THEN reset(q) ELSE q
boundaryRule(c, q) == IF c = 0 THEN reset(q) ELSE q
boundaryEffect(q) == boundaryRule(countLeft, q)

componentDidMount == SetInterval

(* if (this.state.countLeft === 0) this.reset() *)
componentDidUpdate(c, q) == IF c = 0 THEN classReset(q) ELSE q

(* if (this.timerId) clearInterval(this.timerId) *)
componentWillUnmountMissing == UNCHANGED <<live, cancels, timerId, nextId>>
componentWillUnmount ==
    IF timerId # {} THEN ClearInterval(timerId)
    ELSE UNCHANGED <<live, cancels, timerId, nextId>>

Activate == IF variant = "class" THEN componentDidMount ELSE intervalEffect
Deactivate == IF variant = "class" THEN componentWillUnmount ELSE intervalCleanup

Settled == queue = <<>> /\ pending = "none"

(* one timer of the side-by-side construction, as constructed with maxCount m *)
NewTimer(m) ==
    [countLeft |-> m, queue |-> <<>>, pending |-> "none",
     timerId |-> {}, live |-> {}, nextId |-> 1, cancels |-> 0]

(* ------------------------------- Init --------------------------------- *)
(* constructor / first render: countLeft = maxCount, no interval yet *)
Constructed ==
    /\ variant \in Variants
    /\ props \in PropValues
    /\ initialCount = IF variant = "class" THEN MaxCountOf(props) ELSE 0
    /\ countLeft = MaxCountOf(props)
    /\ queue = <<>>
    /\ pending = "none"
    /\ status = "rendered"
    /\ timerId = {}
    /\ live = {}
    /\ nextId = 1
    /\ inflight = {}
    /\ cancels = 0
    /\ deactivations = 0
    /\ dropped = FALSE
    /\ propsFixed = TRUE
    /\ serial = TRUE
    /\ ticks = 0
    /\ step = "init"

(* no script is running beside the timer *)
NoScript == pc = "none" /\ env = <<>> /\ log = <<>> /\ tasks = <<>>

(* one instance on its own: the side-by-side construction is absent *)
Init == Constructed /\ trio = <<>> /\ NoScript

(* ------------------------------ actions ------------------------------- *)
(* the mount commit: componentDidMount, or both effects in source order;  *)
(* under StrictMode React replays unmount and mount right after           *)
Mount ==
    /\ status = "rendered"
    /\ Activate
    /\ queue' = IF variant = "class" THEN queue ELSE boundaryEffect(queue)
    /\ \E strict \in BOOLEAN : status' = IF strict THEN "strictMounted" ELSE "mounted"
    /\ step' = "mount"
    /\ UNCHANGED <<scriptVars, trio, variant, props, initialCount, countLeft, pending, inflight,
                   deactivations, dropped, propsFixed, serial, ticks>>

StrictUnmount ==
    /\ status = "strictMounted"
    /\ Deactivate
    /\ status' = "strictUnmounted"
    /\ step' = "strictUnmount"
    /\ UNCHANGED <<scriptVars, trio, variant, props, initialCount, countLeft, queue, pending, inflight,
                   deactivations, dropped, propsFixed, serial, ticks>>

StrictRemount ==
    /\ status = "strictUnmounted"
    /\ Activate
    /\ queue' = IF variant = "class" THEN queue ELSE boundaryEffect(queue)
    /\ status' = "mounted"
    /\ step' = "strictRemount"
    /\ UNCHANGED <<scriptVars, trio, variant, props, initialCount, countLeft, pending, inflight,
                   deactivations, dropped, propsFixed, serial, ticks>>

Running == status \in {"mounted", "unmounted"} /\ pending # "sync"

(* the host's timer elapses: a firing of interval id is queued *)
Fire(id) ==
    /\ Running
    /\ id \in live
    /\ id \notin inflight
    /\ inflight' = inflight \cup {id}
    /\ step' = "fire"
    /\ UNCHANGED <<scriptVars, trio, variant, props, initialCount, countLeft, queue, pending, status,
                   timerId, live, nextId, cancels, deactivations, dropped,
                   propsFixed, serial, ticks>>

(* the queued firing runs: tick(), unless the interval was cancelled meanwhile *)
Deliver(id) ==
    /\ Running
    /\ id \in inflight
    /\ inflight' = inflight \ {id}
    /\ IF id \in live
       THEN /\ Len(queue) < MaxQueue
            /\ countLeft > -MaxBelow
            /\ queue' = tick(queue)
            /\ serial' = (serial /\ Settled /\ ticks < MaxTicks)
            /\ ticks' = IF serial' THEN ticks + 1 ELSE 0
            /\ step' = "tick"
            /\ UNCHANGED dropped
       ELSE /\ dropped' = TRUE
            /\ step' = "drop"
            /\ UNCHANGED <<queue, serial, ticks>>
    /\ UNCHANGED <<scriptVars, trio, variant, props, initialCount, countLeft, pending, status,
                   timerId, live, nextId, cancels, deactivations, propsFixed>>

(* the Reset button: onClick={reset} *)
Reset ==
    /\ status = "mounted"
    /\ pending # "sync"
    /\ Len(queue) < MaxQueue
    /\ queue' = IF variant = "class" THEN classReset(queue) ELSE reset(queue)
    /\ serial' = FALSE
    /\ ticks' = 0
    /\ step' = "reset"
    /\ UNCHANGED <<scriptVars, trio, variant, props, initialCount, countLeft, pending, status, timerId,
                   live, nextId, inflight, cancels, deactivations, dropped, propsFixed>>

(* the passive effects of the last render run (function variants) *)
FlushEffects ==
    /\ status = "mounted"
    /\ pending = "passive"
    /\ intervalEffectOnUpdate
    /\ queue' = boundaryEffect(queue)
    /\ pending' = "none"
    /\ step' = "effect"
    /\ UNCHANGED <<scriptVars, trio, variant, props, initialCount, countLeft, status, inflight,
                   deactivations, dropped, propsFixed, serial, ticks>>

(* one render and commit with props p; byParent: the host re-rendered *)
RenderWithReinit(p, byParent) ==
    /\ countLeft' = IF MaxCountOf(p) # MaxCountOf(props)
                    THEN MaxCountOf(p) ELSE ApplyAll(queue, countLeft)
    /\ props' = p
    /\ queue' = <<>>
    /\ pending' = "none"
RenderWith(p, byParent) ==
    LET new == ApplyAll(queue, countLeft)
        changed == new # countLeft
        depsChanged == changed \/ MaxCountOf(p) # MaxCountOf(props)
    IN /\ countLeft' = new
       /\ props' = p
       /\ IF variant = "class"
          THEN /\ queue' = componentDidUpdate(new, <<>>)
               /\ pending' = IF queue' # <<>> THEN "sync" ELSE "none"
          ELSE /\ queue' = <<>>
               /\ pending' = IF variant = "inline"
                             THEN (IF changed \/ byParent THEN "passive" ELSE "none")
                             ELSE (IF depsChanged THEN "passive" ELSE "none")

(* React renders the queued updates *)
Render ==
    /\ status = "mounted"
    /\ queue # <<>>
    /\ pending # "passive"
    /\ RenderWith(props, FALSE)
    /\ step' = "render"
    /\ UNCHANGED <<scriptVars, trio, variant, initialCount, status, timerId, live, nextId, inflight,
                   cancels, deactivations, dropped, propsFixed, serial, ticks>>

(* the host re-renders the timer, with the same or another maxCount *)
ParentRender(p) ==
    /\ status = "mounted"
    /\ pending = "none"
    /\ RenderWith(p, TRUE)
    /\ propsFixed' = (propsFixed /\ MaxCountOf(p) = MaxCountOf(props))
    /\ serial' = (serial /\ MaxCountOf(p) = MaxCountOf(props))
    /\ ticks' = IF serial' THEN ticks ELSE 0
    /\ step' = "parentRender"
    /\ UNCHANGED <<scriptVars, trio, variant, initialCount, status, timerId, live, nextId, inflight,
                   cancels, deactivations, dropped>>

(* the real unmount: effect cleanup / componentWillUnmount *)
Unmount ==
    /\ status = "mounted"
    /\ pending = "none"
    /\ Deactivate
    /\ status' = "unmounted"
    /\ deactivations' = 1
    /\ step' = "unmount"
    /\ UNCHANGED <<scriptVars, trio, variant, props, initialCount, countLeft, queue, pending, inflight,
                   dropped, propsFixed, serial, ticks>>

(* a second trigger runs the deactivation path again on the same instance *)
DeactivateAgain ==
    /\ status = "unmounted"
    /\ deactivations < MaxDeactivations
    /\ Deactivate
    /\ deactivations' = deactivations + 1
    /\ step' = "deactivateAgain"
    /\ UNCHANGED <<scriptVars, trio, variant, props, initialCount, countLeft, queue, pending, status,
                   inflight, dropped, propsFixed, serial, ticks>>

Next ==
    \/ Mount
    \/ StrictUnmount
    \/ StrictRemount
    \/ \E id \in live : Fire(id)
    \/ \E id \in inflight : Deliver(id)
    \/ Reset
    \/ FlushEffects
    \/ Render
    \/ \E p \in PropValues : ParentRender(p)
    \/ Unmount
    \/ DeactivateAgain

Spec == Init /\ [][Next]_vars

(* ------------------- componentDidMount called directly ---------------- *)
(* componentDidMount() is a public method of the class: a caller other    *)
(* than React may invoke it on a mounted instance. It has no guard.       *)
ActivateAgain ==
    /\ variant = "class"
    /\ status = "mounted"
    /\ pending = "none"
    /\ nextId <= MaxIntervals
    /\ componentDidMount
    /\ step' = "activateAgain"
    /\ UNCHANGED <<scriptVars, trio, variant, props, initialCount, countLeft, queue, pending, status,
                   inflight, deactivations, dropped, propsFixed, serial, ticks>>

SpecReactivate == Init /\ [][Next \/ ActivateAgain]_vars

(* ----------------------------- scheduling ----------------------------- *)
(* A live interval keeps firing and its callbacks are run; React renders  *)
(* queued updates and flushes scheduled effects. Mounting, unmounting,    *)
(* the Reset button and the host's re-renders are never forced.           *)
Fairness ==
    /\ WF_vars(\E id \in live : Fire(id))
    /\ WF_vars(\E id \in inflight : Deliver(id))
    /\ WF_vars(Render)
    /\ WF_vars(FlushEffects)

FairSpec == Spec /\ Fairness

(* ----------------------- the variants side by side -------------------- *)
(* One timer of each variant, constructed with the same maxCount and      *)
(* driven by the same events at the same moments: a tick() reaches all    *)
(* three, React renders all three, the passive effects of the function    *)
(* variants are flushed together. props and initialCount are shared;      *)
(* trio.timer[v] holds the state of variant v, trio.hosted records that   *)
(* the host has re-rendered.                                              *)
setIntervalOn(t) ==
    [t EXCEPT !.timerId = {t.nextId}, !.live = t.live \cup {t.nextId},
              !.nextId = t.nextId + 1]
clearIntervalOn(t) ==
    [t EXCEPT !.live = t.live \ t.timerId,
              !.cancels = t.cancels + Cardinality(t.timerId \cap t.live)]

(* componentDidMount / the two effects in source order *)
mountOf(v, t) ==
    IF v = "class" THEN setIntervalOn(t)
    ELSE [setIntervalOn(t) EXCEPT !.queue = boundaryRule(t.countLeft, t.queue)]

(* componentWillUnmount / the interval effect's cleanup *)
unmountOf(v, t) ==
    IF v = "class" /\ t.timerId = {} THEN t ELSE clearIntervalOn(t)

(* [countLeft, maxCount]: the dependencies of the boundary effect in useTimer *)
depsCountLeftOnly(changed, p) == changed
depsChanged(changed, p) == changed \/ MaxCountOf(p) # MaxCountOf(props)

(* one render and commit of timer t of variant v with props p *)
renderOf(v, t, p, byParent) ==
    LET new == ApplyAll(t.queue, t.countLeft)
        changed == new # t.countLeft
        again == componentDidUpdate(new, <<>>)
    IN IF v = "class"
       THEN [t EXCEPT !.countLeft = new, !.queue = again,
                      !.pending = IF again # <<>> THEN "sync" ELSE "none"]
       ELSE [t EXCEPT !.countLeft = new, !.queue = <<>>,
                      !.pending = IF v = "inline"
                                  THEN (IF changed \/ byParent THEN "passive" ELSE "none")
                                  ELSE (IF depsChanged(changed, p) THEN "passive" ELSE "none")]

(* the passive effects of timer t run *)
flushOf(t) == [t EXCEPT !.queue = boundaryRule(t.countLeft, t.queue), !.pending = "none"]

(* the host passes maxCount explicitly to the three timers *)
TrioProps == PropValues \ {{}}

TrioInit ==
    /\ NoScript
    /\ Constructed
    /\ variant = "class"
    /\ props \in TrioProps
    /\ trio = [timer |-> [v \in Variants |-> NewTimer(MaxCountOf(props))],
               hosted |-> FALSE]

InSync == trio.timer["class"].pending = "sync"
TrioBusy == \E v \in Variants : trio.timer[v].pending # "none"

TrioFrame ==
    UNCHANGED <<scriptVars, variant, initialCount, countLeft, queue, pending, timerId, live,
                nextId, inflight, cancels, deactivations, dropped, serial, ticks>>

TrioMount ==
    /\ status = "rendered"
    /\ trio' = [trio EXCEPT !.timer = [v \in Variants |-> mountOf(v, trio.timer[v])]]
    /\ status' = "mounted"
    /\ step' = "mount"
    /\ UNCHANGED <<props, propsFixed>>
    /\ TrioFrame

(* the intervals fire and tick() runs in each variant *)
TrioTick ==
    /\ status = "mounted"
    /\ ~InSync
    /\ \A v \in Variants :
          /\ trio.timer[v].live # {}
          /\ Len(trio.timer[v].queue) < MaxQueue
          /\ trio.timer[v].countLeft > -MaxBelow
    /\ trio' = [trio EXCEPT !.timer = [v \in Variants |->
                    [trio.timer[v] EXCEPT !.queue = tick(trio.timer[v].queue)]]]
    /\ step' = "tick"
    /\ UNCHANGED <<props, propsFixed, status>>
    /\ TrioFrame

(* the Reset button of each variant *)
TrioReset ==
    /\ status = "mounted"
    /\ ~InSync
    /\ \A v \in Variants : Len(trio.timer[v].queue) < MaxQueue
    /\ trio' = [trio EXCEPT !.timer = [v \in Variants |->
                    [trio.timer[v] EXCEPT !.queue =
                        IF v = "class" THEN classReset(trio.timer[v].queue)
                        ELSE reset(trio.timer[v].queue)]]]
    /\ step' = "reset"
    /\ UNCHANGED <<props, propsFixed, status>>
    /\ TrioFrame

(* React renders every variant that has queued updates *)
TrioRender ==
    /\ status = "mounted"
    /\ ~InSync
    /\ \E v \in Variants : trio.timer[v].queue # <<>>
    /\ \A v \in Variants : trio.timer[v].pending # "passive"
    /\ trio' = [trio EXCEPT !.timer = [v \in Variants |->
                    IF trio.timer[v].queue = <<>> THEN trio.timer[v]
                    ELSE renderOf(v, trio.timer[v], props, FALSE)]]
    /\ step' = "render"
    /\ UNCHANGED <<props, propsFixed, status>>
    /\ TrioFrame

(* the class re-renders inside its commit after componentDidUpdate's setState *)
TrioSyncRender ==
    /\ status = "mounted"
    /\ InSync
    /\ trio' = [trio EXCEPT !.timer["class"] =
                    renderOf("class", trio.timer["class"], props, FALSE)]
    /\ step' = "syncRender"
    /\ UNCHANGED <<props, propsFixed, status>>
    /\ TrioFrame

(* the passive effects scheduled by the last render run *)
TrioFlush ==
    /\ status = "mounted"
    /\ ~InSync
    /\ \E v \in Variants : trio.timer[v].pending = "passive"
    /\ trio' = [trio EXCEPT !.timer = [v \in Variants |->
                    IF trio.timer[v].pending = "passive" THEN flushOf(trio.timer[v])
                    ELSE trio.timer[v]]]
    /\ step' = "effect"
    /\ UNCHANGED <<props, propsFixed, status>>
    /\ TrioFrame

(* the host re-renders the three timers, with the same or another maxCount *)
TrioParentRender(p) ==
    /\ status = "mounted"
    /\ ~TrioBusy
    /\ trio' = [timer |-> [v \in Variants |-> renderOf(v, trio.timer[v], p, TRUE)],
                hosted |-> TRUE]
    /\ props' = p
    /\ propsFixed' = (propsFixed /\ MaxCountOf(p) = MaxCountOf(props))
    /\ step' = IF MaxCountOf(p) = MaxCountOf(props) THEN "idleRender" ELSE "parentRender"
    /\ UNCHANGED status
    /\ TrioFrame

TrioUnmount ==
    /\ status = "mounted"
    /\ ~TrioBusy
    /\ trio' = [trio EXCEPT !.timer = [v \in Variants |-> unmountOf(v, trio.timer[v])]]
    /\ status' = "unmounted"
    /\ step' = "unmount"
    /\ UNCHANGED <<props, propsFixed>>
    /\ TrioFrame

TrioNext ==
    \/ TrioMount
    \/ TrioTick
    \/ TrioReset
    \/ TrioRender
    \/ TrioSyncRender
    \/ TrioFlush
    \/ \E p \in TrioProps : TrioParentRender(p)
    \/ TrioUnmount

SpecTrio == TrioInit /\ [][TrioNext]_vars

(* ====================================================================== *)
(* Scripts of 03-fp/04-async. A script run has no timer component beside  *)
(* it: the timer variables keep the values of NoTimer.                    *)
(* ====================================================================== *)
NoTimer ==
    /\ variant = "none" /\ props = {} /\ initialCount = 0 /\ countLeft = 0
    /\ queue = <<>> /\ pending = "none" /\ status = "none" /\ timerId = {}
    /\ live = {} /\ nextId = 1 /\ inflight = {} /\ cancels = 0
    /\ deactivations = 0 /\ dropped = FALSE /\ propsFixed = TRUE
    /\ serial = TRUE /\ ticks = 0 /\ step = "none" /\ trio = <<>>

(* a console line; n and val are 0 and {} where the line carries none *)
Line(kind, n, val) == [line |-> kind, n |-> n, val |-> val]

(* ------------------- Promise.all over three delayed promises ---------- *)
(* const promises = [promiseN(3), promiseN(2), promiseN(1)] *)
Delays == <<3, 2, 1>>
Idx == 1..Len(Delays)

Null == {}

(* the promise Promise.all returns: its resolve-element functions write   *)
(* values[index]; the first rejection settles it                          *)
NewAll == [state |-> "pending", values |-> [i \in Idx |-> {}],
           remaining |-> Len(Delays), reason |-> 0]

resolveElementSettleOrder(a, i, v) ==
    LET k == Len(Delays) - a.remaining + 1
        vals == [a.values EXCEPT ![k] = {v}]
    IN IF a.remaining = 1
       THEN [a EXCEPT !.values = vals, !.remaining = 0, !.state = "fulfilled"]
       ELSE [a EXCEPT !.values = vals, !.remaining = a.remaining - 1]
resolveElement(a, i, v) ==
    LET vals == [a.values EXCEPT ![i] = {v}]
    IN IF a.remaining = 1
       THEN [a EXCEPT !.values = vals, !.remaining = 0,
                      !.state = IF a.state = "pending" THEN "fulfilled" ELSE a.state]
       ELSE [a EXCEPT !.values = vals, !.remaining = a.remaining - 1]

rejectAllIgnored(a, n) == a
rejectAll(a, n) ==
    IF a.state = "pending" THEN [a EXCEPT !.state = "rejected", !.reason = n] ELSE a

ValuesOf(a) == [i \in Idx |-> CHOOSE v \in a.values[i] : TRUE]

AllInit ==
    /\ NoTimer
    /\ pc = "create"
    /\ \E r \in SUBSET (1..MaxReject) :
         env = [rejectList |-> r, i |-> 1,
                state |-> [i \in Idx |-> "none"],
                all |-> NewAll, results |-> Null]
    /\ log = <<>>
    /\ tasks = [timers |-> {}, micro |-> <<>>]

(* promiseN(n): the executor logs the start line and arms the timer *)
promiseN ==
    /\ pc = "create"
    /\ LET n == Delays[env.i]
       IN /\ log' = Append(log, Line("start", n, {}))
          /\ tasks' = [tasks EXCEPT !.timers = @ \cup {env.i}]
          /\ env' = [env EXCEPT !.state[env.i] = "pending", !.i = env.i + 1]
    /\ pc' = IF env.i = Len(Delays) THEN "call" ELSE "create"
    /\ UNCHANGED timerVars

(* results = await Promise.all(promises): the script is suspended *)
awaitAll ==
    /\ pc = "call"
    /\ pc' = "await"
    /\ UNCHANGED <<env, log, tasks, timerVars>>

(* the timer with the shortest delay still pending runs its callback *)
timeout ==
    /\ pc \in {"await", "done"}
    /\ tasks.micro = <<>>
    /\ tasks.timers # {}
    /\ LET i == CHOOSE k \in tasks.timers :
                    \A j \in tasks.timers : Delays[k] <= Delays[j]
           n == Delays[i]
       IN IF n \in env.rejectList
          THEN /\ env' = [env EXCEPT !.state[i] = "rejected"]
               /\ log' = log
               /\ tasks' = [timers |-> tasks.timers \ {i},
                            micro |-> Append(tasks.micro, [job |-> "element", idx |-> i])]
          ELSE /\ env' = [env EXCEPT !.state[i] = "fulfilled"]
               /\ log' = Append(log, Line("resolved", n, {}))
               /\ tasks' = [timers |-> tasks.timers \ {i},
                            micro |-> Append(tasks.micro, [job |-> "element", idx |-> i])]
    /\ UNCHANGED <<pc, timerVars>>

(* the reaction Promise.all registered on promises[idx] *)
allReaction ==
    /\ tasks.micro # <<>>
    /\ Head(tasks.micro).job = "element"
    /\ LET i == Head(tasks.micro).idx
           a == IF env.state[i] = "fulfilled"
                THEN resolveElement(env.all, i, Delays[i])
                ELSE rejectAll(env.all, Delays[i])
           settles == env.all.state = "pending" /\ a.state # "pending"
       IN /\ env' = [env EXCEPT !.all = a]
          /\ tasks' = [tasks EXCEPT !.micro =
                          IF settles THEN Append(Tail(@), [job |-> "resume", idx |-> 0])
                          ELSE Tail(@)]
    /\ UNCHANGED <<pc, log, timerVars>>

(* the await resumes: the assignment, or the throw into the catch block *)
resume ==
    /\ pc = "await"
    /\ tasks.micro # <<>>
    /\ Head(tasks.micro).job = "resume"
    /\ tasks' = [tasks EXCEPT !.micro = Tail(@)]
    /\ IF env.all.state = "fulfilled"
       THEN /\ env' = [env EXCEPT !.results = {ValuesOf(env.all)}]
            /\ pc' = "print"
       ELSE /\ env' = env
            /\ pc' = "catch"
    /\ UNCHANGED <<log, timerVars>>

(* console.error("Error: " + error.message) *)
catchError ==
    /\ pc = "catch"
    /\ log' = Append(log, Line("error", env.all.reason, {}))
    /\ pc' = "print"
    /\ UNCHANGED <<env, tasks, timerVars>>

(* console.log(results) *)
logResults ==
    /\ pc = "print"
    /\ log' = Append(log, Line("results", 0, env.results))
    /\ pc' = "done"
    /\ UNCHANGED <<env, tasks, timerVars>>

AllNext ==
    \/ promiseN
    \/ awaitAll
    \/ timeout
    \/ allReaction
    \/ resume
    \/ catchError
    \/ logResults

SpecAll == AllInit /\ [][AllNext]_vars

(* ------------------- getUser: then chain and async/await -------------- *)
(* The two scripts run apart from each other against the same server      *)
(* behaviour env.net; pc, env and log each have a "chain" and an "async"  *)
(* side. A settled promise is [kind, what, n].                            *)
Settled3(kind, what, n) == [kind |-> kind, what |-> what, n |-> n]
Unsettled == Settled3("pending", "none", 0)

Statuses == {200, 299, 300, 404, 500}
Nets ==
    {[network |-> "down", status |-> 0, body |-> "none"]}
        \cup [network : {"up"}, status : Statuses, body : {"invalid", "user"}]

(* fetch(url): rejected on a network failure, else fulfilled with the Response *)
fetch(net) ==
    IF net.network = "down" THEN Settled3("rejected", "TypeError", 0)
    ELSE Settled3("fulfilled", "response", net.status)

(* response.ok: status in the range 200-299 *)
okAlways(code) == TRUE
ok(code) == code >= 200 /\ code <= 299

(* response.json(): rejected when the body does not parse; user 2 was asked for *)
json(net) ==
    IF net.body = "invalid" THEN Settled3("rejected", "SyntaxError", 0)
    ELSE Settled3("fulfilled", "user", 2)

(* if (!response.ok) throw new Error(`${response.status} Error`); else json() *)
checkOk(net, v) ==
    IF v.kind = "rejected" THEN v
    ELSE IF ~ok(v.n) THEN Settled3("rejected", "Error", v.n)
    ELSE Settled3("pending", "json", 0)

(* the console line a settled value is shown as *)
Shown(v) == Line(v.what, v.n, {})

UserInit ==
    /\ NoTimer
    /\ pc = [chain |-> "start", async |-> "start"]
    /\ \E net \in Nets : env = [net |-> net, chain |-> Unsettled, async |-> Unsettled]
    /\ log = [chain |-> <<>>, async |-> <<>>]
    /\ tasks = <<>>

(* console.log("--- Start ---"), in either script *)
logStart(side) ==
    /\ pc[side] = "start"
    /\ log' = [log EXCEPT ![side] = Append(@, Line("--- Start ---", 0, {}))]
    /\ pc' = [pc EXCEPT ![side] = "call"]
    /\ UNCHANGED <<env, tasks, timerVars>>

(* getUser(2) / main(): fetch is called and the script yields *)
callGetUser(side) ==
    /\ pc[side] = "call"
    /\ pc' = [pc EXCEPT ![side] = "fetching"]
    /\ UNCHANGED <<env, log, tasks, timerVars>>

(* then chain: fetch settles; the first then runs on a Response, a        *)
(* rejection passes it by                                                 *)
chainFirstThen ==
    /\ pc.chain = "fetching"
    /\ env' = [env EXCEPT !.chain = checkOk(env.net, fetch(env.net))]
    /\ pc' = [pc EXCEPT !.chain = IF env'.chain.kind = "pending" THEN "json" ELSE "then"]
    /\ UNCHANGED <<log, tasks, timerVars>>

(* then chain: the promise of response.json() settles the one getUser returned *)
chainJson ==
    /\ pc.chain = "json"
    /\ env' = [env EXCEPT !.chain = json(env.net)]
    /\ pc' = [pc EXCEPT !.chain = "then"]
    /\ UNCHANGED <<log, tasks, timerVars>>

(* .then((user) => console.log(user)) *)
chainThen ==
    /\ pc.chain = "then"
    /\ IF env.chain.kind = "fulfilled"
       THEN /\ log' = [log EXCEPT !.chain = Append(@, Shown(env.chain))]
            /\ env' = [env EXCEPT !.chain = Settled3("fulfilled", "undefined", 0)]
       ELSE UNCHANGED <<log, env>>
    /\ pc' = [pc EXCEPT !.chain = "catch"]
    /\ UNCHANGED <<tasks, timerVars>>

(* .catch((error) => console.error(error)) *)
chainCatch ==
    /\ pc.chain = "catch"
    /\ IF env.chain.kind = "rejected"
       THEN /\ log' = [log EXCEPT !.chain = Append(@, Shown(env.chain))]
            /\ env' = [env EXCEPT !.chain = Settled3("fulfilled", "undefined", 0)]
       ELSE UNCHANGED <<log, env>>
    /\ pc' = [pc EXCEPT !.chain = "finally"]
    /\ UNCHANGED <<tasks, timerVars>>

(* .finally(() => console.log("--- Completed ---")) *)
chainFinally ==
    /\ pc.chain = "finally"
    /\ log' = [log EXCEPT !.chain = Append(@, Line("--- Completed ---", 0, {}))]
    /\ pc' = [pc EXCEPT !.chain = "done"]
    /\ UNCHANGED <<env, tasks, timerVars>>

(* async getUser resumes from await fetch(...): a rejection is thrown,    *)
(* else the ok test, then return response.json()                          *)
getUserResume ==
    /\ pc.async = "fetching"
    /\ env' = [env EXCEPT !.async = checkOk(env.net, fetch(env.net))]
    /\ pc' = [pc EXCEPT !.async = IF env'.async.kind = "pending" THEN "json" ELSE "resume"]
    /\ UNCHANGED <<log, tasks, timerVars>>

(* the promise of response.json() settles the promise of getUser(2) *)
getUserJson ==
    /\ pc.async = "json"
    /\ env' = [env EXCEPT !.async = json(env.net)]
    /\ pc' = [pc EXCEPT !.async = "resume"]
    /\ UNCHANGED <<log, tasks, timerVars>>

(* main resumes from await getUser(2): console.log(user), or the catch    *)
(* block's console.error(error)                                           *)
mainResume ==
    /\ pc.async = "resume"
    /\ log' = [log EXCEPT !.async = Append(@, Shown(env.async))]
    /\ pc' = [pc EXCEPT !.async = "finally"]
    /\ UNCHANGED <<env, tasks, timerVars>>

(* finally { console.log("--- Completed ---") } *)
mainFinally ==
    /\ pc.async = "finally"
    /\ log' = [log EXCEPT !.async = Append(@, Line("--- Completed ---", 0, {}))]
    /\ pc' = [pc EXCEPT !.async = "done"]
    /\ UNCHANGED <<env, tasks, timerVars>>

UserNext ==
    \/ \E side \in {"chain", "async"} : logStart(side)
    \/ \E side \in {"chain", "async"} : callGetUser(side)
    \/ chainFirstThen
    \/ chainJson
    \/ chainThen
    \/ chainCatch
    \/ chainFinally
    \/ getUserResume
    \/ getUserJson
    \/ mainResume
    \/ mainFinally

SpecUser == UserInit /\ [][UserNext]_vars

(* ------------------------------- doIt() ------------------------------- *)
(* Math.random() is drawn in hundredths: env.r / RandomScale.             *)
Randoms == 0..(RandomScale - 1)
Undefined == {}

(* const isSucceeded = Math.random() < 0.5 *)
isSucceeded(r) == 2 * r < RandomScale

(* the catch block ends without a return: the function completes with undefined *)
catchCompletionReturned == {"Returned"}
catchCompletion == Undefined

(* doIt() ?? "" *)
Coalesce(v, d) == IF v = Undefined THEN d ELSE CHOOSE x \in v : TRUE

DoItInit ==
    /\ NoTimer
    /\ pc = "try"
    /\ \E r \in Randoms : env = [r |-> r, completion |-> Undefined, result |-> Undefined]
    /\ log = <<>>
    /\ tasks = <<>>

(* try: console.log("Fulfilled") and return "Returned", or throw 1234 *)
doItTry ==
    /\ pc = "try"
    /\ IF isSucceeded(env.r)
       THEN /\ log' = Append(log, Line("Fulfilled", 0, {}))
            /\ env' = [env EXCEPT !.completion = {"Returned"}]
            /\ pc' = "finally"
       ELSE /\ pc' = "catch"
            /\ UNCHANGED <<log, env>>
    /\ UNCHANGED <<tasks, timerVars>>

(* catch (e): console.error(e, ":", typeof e) *)
doItCatch ==
    /\ pc = "catch"
    /\ log' = Append(log, Line("error", 1234, {"number"}))
    /\ env' = [env EXCEPT !.completion = catchCompletion]
    /\ pc' = "finally"
    /\ UNCHANGED <<tasks, timerVars>>

(* finally: console.log("Completed"), then the function returns *)
doItFinally ==
    /\ pc = "finally"
    /\ log' = Append(log, Line("Completed", 0, {}))
    /\ pc' = "returned"
    /\ UNCHANGED <<env, tasks, timerVars>>

(* const result = doIt() ?? "" *)
assignResult ==
    /\ pc = "returned"
    /\ env' = [env EXCEPT !.result = {Coalesce(env.completion, "")}]
    /\ pc' = "print"
    /\ UNCHANGED <<log, tasks, timerVars>>

(* console.log(result) *)
logResult ==
    /\ pc = "print"
    /\ log' = Append(log, Line("result", 0, env.result))
    /\ pc' = "done"
    /\ UNCHANGED <<env, tasks, timerVars>>

DoItNext ==
    \/ doItTry
    \/ doItCatch
    \/ doItFinally
    \/ assignResult
    \/ logResult

SpecDoIt == DoItInit /\ [][DoItNext]_vars

(* ------------------------- various-exception.js ----------------------- *)
(* the error class the try block throws for num *)
classifyReversed(num) ==
    IF num % 5 = 0 THEN "QuintupleError"
    ELSE IF num % 3 = 0 THEN "TripleError"
    ELSE IF num % 2 = 0 THEN "DoubleError"
    ELSE "SomeError"
classify(num) ==
    IF num % 2 = 0 THEN "DoubleError"
    ELSE IF num % 3 = 0 THEN "TripleError"
    ELSE IF num % 5 = 0 THEN "QuintupleError"
    ELSE "SomeError"

(* the catch block: the divisor named in the logged line, 0 when rethrown *)
handled(e) ==
    IF e = "DoubleError" THEN 2
    ELSE IF e = "TripleError" THEN 3
    ELSE IF e = "QuintupleError" THEN 5
    ELSE 0

NoError == [class |-> "none", message |-> "", cause |-> "none"]

VariousInit ==
    /\ NoTimer
    /\ pc = "random"
    /\ \E num \in Randoms : env = [num |-> num, e |-> NoError, uncaught |-> NoError]
    /\ log = <<>>
    /\ tasks = <<>>

(* const num = Math.floor(Math.random() * 100); console.log(num) *)
logNum ==
    /\ pc = "random"
    /\ log' = Append(log, Line("num", env.num, {}))
    /\ pc' = "classify"
    /\ UNCHANGED <<env, tasks, timerVars>>

(* the if / else if chain: one throw *)
throwError ==
    /\ pc = "classify"
    /\ env' = [env EXCEPT !.e = [class |-> classify(env.num), message |-> "",
                                 cause |-> "none"]]
    /\ pc' = "catch"
    /\ UNCHANGED <<log, tasks, timerVars>>

(* catch (e): the instanceof chain logs, or rethrows wrapped *)
catchDispatch ==
    /\ pc = "catch"
    /\ IF handled(env.e.class) # 0
       THEN /\ log' = Append(log, Line(env.e.class, handled(env.e.class), {}))
            /\ pc' = "done"
            /\ UNCHANGED env
       ELSE /\ env' = [env EXCEPT !.uncaught =
                          [class |-> "Error", message |-> "unexpected error",
                           cause |-> env.e.class]]
            /\ pc' = "uncaught"
            /\ UNCHANGED log
    /\ UNCHANGED <<tasks, timerVars>>

VariousNext ==
    \/ logNum
    \/ throwError
    \/ catchDispatch

SpecVarious == VariousInit /\ [][VariousNext]_vars

(* ============================== claims ================================ *)
Rendered == step \in {"render", "parentRender"}
AllTicks(q) == \A i \in 1..Len(q) : q[i].src = "tick"
Last(q) == q[Len(q)]

(* C1 as stated: with an unchanged positive cycle length, every rendered  *)
(* value satisfies 0 < countLeft <= cycleLength.                          *)
C1_Orig ==
    (Rendered /\ propsFixed /\ CycleLength > 0)
        => (0 < countLeft /\ countLeft <= CycleLength)

(* C1 amended: with an unchanged cycle length every rendered value is at  *)
(* most cycleLength, and a render that brings countLeft to 0 shows the 0  *)
(* and leaves the boundary rule scheduled to run on it.                   *)
C1_Amended ==
    /\ []((variant = "class" \/ propsFixed) => countLeft <= CycleLength)
    /\ [][(Rendered' /\ countLeft # 0 /\ countLeft' = 0) => pending' # "none"]_vars

C1_Witness ==
    /\ step = "render" /\ countLeft = 0 /\ propsFixed /\ CycleLength > 0
    /\ pending # "none"

(* C2: with a fixed positive cycle length countLeft stays in              *)
(* [0, cycleLength] under every interleaving of ticks, resets and checks. *)
C2_Orig ==
    (propsFixed /\ CycleLength > 0) => (0 <= countLeft /\ countLeft <= CycleLength)

(* C3: with no reset and every tick followed by the boundary rule, after  *)
(* k ticks a settled timer shows cycleLength - (k mod cycleLength), so    *)
(* cycleLength ticks bring it back to cycleLength (3: 2, 1, 3, 2).        *)
C3_Cyclic ==
    (serial /\ Settled /\ status = "mounted" /\ CycleLength > 0)
        => countLeft = CycleLength - (ticks % CycleLength)

C3_Witness ==
    /\ serial /\ Settled /\ status = "mounted"
    /\ CycleLength = 3 /\ ticks = 3 /\ countLeft = 3

(* C4: a render of k queued ticks lowers the current countLeft by k,      *)
(* whatever renders, resets or prop changes came before.                  *)
C4_NoLostTick ==
    [][(Rendered' /\ queue # <<>> /\ AllTicks(queue))
          => countLeft' = countLeft - Len(queue)]_vars

C4_Witness ==
    /\ step = "tick" /\ Len(queue) >= 2 /\ AllTicks(queue)
    /\ ~serial /\ countLeft # MaxCountOf(props)

(* C5: reset() queues a write of the cycle length in force, whatever the  *)
(* counter and the pending ticks; the render of a queue ending in a write *)
(* shows that value; a second reset in succession changes nothing of the  *)
(* resulting state.                                                       *)
C5_Reset ==
    /\ [](step = "reset" => Last(queue) = Write(CycleLength))
    /\ [][(Rendered' /\ queue # <<>> /\ Last(queue).src = "write")
             => countLeft' = Last(queue).val]_vars
    /\ [][(step = "reset" /\ step' = "reset")
             => ApplyAll(queue', countLeft') = ApplyAll(queue, countLeft)]_vars

C5_Witness ==
    /\ step = "reset" /\ countLeft = 0 /\ Len(queue) = 3
    /\ queue[1] = Dec /\ queue[2] = queue[3] /\ queue[3] = Write(CycleLength)

(* C6 as stated: in every variant reset() writes the maxCount in force    *)
(* when it is called.                                                     *)
C6_Orig == step = "reset" => Last(queue).val = MaxCountOf(props)

(* C6 amended: the function variants write the maxCount of the latest     *)
(* render; the class variant writes initialCount, whatever props.maxCount *)
(* is by then.                                                            *)
C6_Amended ==
    step = "reset" =>
        Last(queue).val = IF variant = "class" THEN initialCount ELSE MaxCountOf(props)

C6_Witness ==
    /\ step = "reset" /\ ~propsFixed /\ variant # "class"
    /\ Last(queue).val = MaxCountOf(props) /\ countLeft # MaxCountOf(props)

(* C7: at most one interval of the instance is registered and not         *)
(* cancelled, in every reachable state.                                   *)
C7_OneBound == Cardinality(live) <= 1

C7_Witness == status = "mounted" /\ nextId = 3 /\ Cardinality(live) = 1 /\ ~propsFixed

(* C8: once the instance is unmounted none of its intervals is live.      *)
C8_Released == status \in {"unmounted", "strictUnmounted"} => live = {}

C8_Witness == status = "unmounted" /\ ~propsFixed /\ ~serial /\ cancels >= 1

(* C9: after the unmount no step changes countLeft or queues an update,   *)
(* also when a firing was queued before the cancellation.                 *)
C9_NoGhostTick ==
    [][status = "unmounted" => (countLeft' = countLeft /\ queue' = queue)]_vars

C9_Witness == status = "unmounted" /\ dropped /\ step = "drop"

(* C10: after the deactivation path has run, once or twice, every         *)
(* registered interval has been cancelled exactly once and none is live;  *)
(* the second run changes nothing.                                        *)
C10_Idempotent ==
    /\ [](status = "unmounted" => (live = {} /\ cancels = nextId - 1))
    /\ [][step' = "deactivateAgain"
            => UNCHANGED <<live, cancels, timerId, countLeft, queue, status>>]_vars

C10_Witness == step = "deactivateAgain" /\ deactivations = 2 /\ live = {} /\ cancels >= 1

(* C11 as stated: an activation of an instance that already holds an      *)
(* interval is rejected or cancels the previous one first, so at most one *)
(* interval is live and every live interval is the stored handle.         *)
C11_Orig == Cardinality(live) <= 1 /\ live \subseteq timerId

(* C13 as stated: an instance that is never unmounted and never reset by *)
(* hand, with a positive cycle length that the host never changes and an  *)
(* interval whose ticks keep arriving, shows countLeft = cycleLength      *)
(* again and again.                                                       *)
C13_Orig ==
    ([](status # "unmounted" /\ step # "reset" /\ propsFixed /\ CycleLength > 0)
        /\ []<>(step = "tick"))
        => []<>(countLeft = CycleLength)

(* C12: tick() and reset() each append exactly their own update, and a    *)
(* render applies the queue in the order of issue: the last write, then   *)
(* one decrement for every tick issued after it (reset then tick gives    *)
(* cycleLength - 1, tick then reset gives cycleLength).                   *)
WritesIn(q) == {i \in 1..Len(q) : q[i].src = "write"}
InOrder(q, c) ==
    IF WritesIn(q) = {} THEN c - Len(q)
    ELSE LET i == CHOOSE k \in WritesIn(q) : \A j \in WritesIn(q) : j <= k
         IN q[i].val - (Len(q) - i)

C12_InOrder ==
    /\ [][step' = "tick" => queue' = Append(queue, Dec)]_vars
    /\ [][step' = "reset" => queue' = Append(queue, Write(CycleLength))]_vars
    /\ [][(Rendered' /\ queue # <<>>) => countLeft' = InOrder(queue, countLeft)]_vars

C12_Witness ==
    /\ step = "tick" /\ Len(queue) = 3 /\ queue[1] = Dec
    /\ queue[2] = Write(CycleLength) /\ queue[3] = Dec /\ countLeft < CycleLength - 1

(* C14: mounting and unmounting leave countLeft alone; an instance        *)
(* unmounted before any tick, reset or prop change still shows its        *)
(* initial cycleLength and has no live interval.                          *)
C14_Frame ==
    /\ [][step' \in {"mount", "strictUnmount", "strictRemount", "unmount",
                     "deactivateAgain"} => countLeft' = countLeft]_vars
    /\ []((status = "unmounted" /\ serial /\ ticks = 0 /\ propsFixed)
            => (countLeft = MaxCountOf(props) /\ live = {}))

C14_Witness ==
    /\ step = "unmount" /\ serial /\ ticks = 0 /\ propsFixed
    /\ countLeft = 3 /\ live = {} /\ cancels >= 1

(* C15: the first rendered countLeft is the cycle length, and it is 60    *)
(* when the host passes no maxCount, in each variant.                     *)
C15_Initial ==
    status = "rendered" => (countLeft = CycleLength /\ (props = {} => countLeft = 60))

C15_Witness == status = "rendered" /\ props = {} /\ countLeft = 60 /\ variant = "class"

(* C16 as stated: no timer with an initial countLeft <= 0 is ever         *)
(* constructed or activated.                                              *)
C16_Orig == step \in {"init", "mount"} => countLeft > 0

(* C16 amended: every maxCount the host passes, 0 included, is accepted:  *)
(* the instance is constructed with countLeft = maxCount and mounts with  *)
(* its interval registered.                                               *)
C16_Amended ==
    (step = "mount" /\ props # {})
        => (props = {countLeft} /\ live = timerId /\ timerId # {})

C16_Witness == step = "mount" /\ props = {0} /\ countLeft = 0 /\ Cardinality(live) = 1

(* C17 as stated: as long as the host leaves the timers alone, the three  *)
(* variants, given the same events, come to rest on the same countLeft    *)
(* with the same intervals registered and cancelled.                      *)
TrioSettled == \A v \in Variants : trio.timer[v].queue = <<>> /\ trio.timer[v].pending = "none"
SameAs(v, w) ==
    /\ trio.timer[v].countLeft = trio.timer[w].countLeft
    /\ trio.timer[v].live = trio.timer[w].live
    /\ trio.timer[v].timerId = trio.timer[w].timerId
    /\ trio.timer[v].cancels = trio.timer[w].cancels

C17_Orig ==
    (TrioSettled /\ ~trio.hosted) => (SameAs("class", "inline") /\ SameAs("class", "hook"))

(* C18: while the instance stays mounted no step registers or cancels an  *)
(* interval; the one live interval is the stored handle, and the unmount  *)
(* cancels exactly that one.                                              *)
C18_OneInterval ==
    /\ [][(status = "mounted" /\ status' = "mounted")
            => UNCHANGED <<live, timerId, nextId, cancels>>]_vars
    /\ [](status = "mounted" => (live = timerId /\ Cardinality(live) = 1))
    /\ [][step' = "unmount"
            => (live' = live \ timerId /\ live' = {} /\ cancels' = cancels + 1)]_vars

C18_Witness ==
    /\ step = "effect" /\ ~propsFixed /\ ~serial /\ queue # <<>>
    /\ live = timerId /\ timerId # {}

(* C19: a re-render by the host, with whatever maxCount, shows the        *)
(* counter the queued updates give (unchanged when none is queued); the   *)
(* counter only ever changes through a queued tick, reset or boundary     *)
(* write.                                                                 *)
C19_NoReinit ==
    /\ [][(step' = "parentRender" /\ queue = <<>>) => countLeft' = countLeft]_vars
    /\ [][step' = "parentRender" => countLeft' = InOrder(queue, countLeft)]_vars
    /\ [][countLeft' # countLeft => queue # <<>>]_vars

C19_Witness ==
    /\ step = "parentRender" /\ ~propsFixed /\ variant # "class"
    /\ countLeft > MaxCountOf(props) /\ MaxCountOf(props) > 0

(* C20: the inline-effect timer and the useTimer timer start in the same  *)
(* state, and every tick, reset, render, effect flush, unmount and every  *)
(* re-render with another maxCount takes equal states to equal states:    *)
(* they show the same countLeft and schedule the same boundary checks.    *)
Agree == trio.timer["inline"] = trio.timer["hook"]

C21_Orig ==
    [][(Rendered' /\ (pending = "sync" \/ (step = "effect" /\ countLeft = 0)))
         => (pending' # "sync" /\ ~(pending' = "passive" /\ countLeft' = 0))]_vars

(* C22: in the class variant initialCount keeps the value the constructor *)
(* gave it, reset() writes it, and the wrap-around writes it, whatever    *)
(* maxCount the host passes later.                                        *)
C22_FixedTarget ==
    /\ [][initialCount' = initialCount]_vars
    /\ []((variant = "class" /\ step = "reset") => Last(queue) = Write(initialCount))
    /\ [][(variant = "class" /\ Rendered' /\ countLeft' = 0)
            => queue' = <<Write(initialCount)>>]_vars

C22_Witness ==
    /\ variant = "class" /\ ~propsFixed /\ initialCount # MaxCountOf(props)
    /\ step = "render" /\ countLeft = 0 /\ pending = "sync"
    /\ queue = <<Write(initialCount)>>

(* C23: below zero a render of ticks alone lowers countLeft by their      *)
(* number, and neither a render that ends below zero nor an effect flush  *)
(* below zero queues a wrap-around write.                                 *)
C23_NoWrapBelowZero ==
    /\ [][(countLeft < 0 /\ Rendered' /\ queue # <<>> /\ AllTicks(queue))
            => (countLeft' = countLeft - Len(queue) /\ countLeft' < countLeft)]_vars
    /\ [][(Rendered' /\ countLeft' < 0) => (queue' = <<>> /\ pending' # "sync")]_vars
    /\ [][(step' = "effect" /\ countLeft < 0) => queue' = queue]_vars

C23_Witness ==
    /\ step = "effect" /\ countLeft = -2 /\ queue = <<>> /\ CycleLength > 0

(* C24: with no n of the promises rejected, the start lines come in the   *)
(* order 3, 2, 1 before any resolved line, the resolved lines in the      *)
(* order 1, 2, 3, Promise.all is fulfilled only once promise 3 is, and    *)
(* results is [3, 2, 1]: input order, not settle order.                   *)
NoneRejected == \A i \in Idx : Delays[i] \notin env.rejectList
IsPrefix(a, b) == Len(a) <= Len(b) /\ SubSeq(b, 1, Len(a)) = a
AllFulfilledLog ==
    << Line("start", 3, {}), Line("start", 2, {}), Line("start", 1, {}),
       Line("resolved", 1, {}), Line("resolved", 2, {}), Line("resolved", 3, {}),
       Line("results", 0, {<<3, 2, 1>>}) >>

C24_AllFulfilled ==
    NoneRejected =>
        /\ IsPrefix(log, AllFulfilledLog)
        /\ env.all.state = "fulfilled" => \A i \in Idx : env.state[i] = "fulfilled"
        /\ env.all.state # "rejected"
        /\ env.results \in {Null, {<<3, 2, 1>>}}
        /\ pc = "done" => (log = AllFulfilledLog /\ env.results = {<<3, 2, 1>>})

C24_Witness ==
    /\ pc = "done" /\ env.rejectList = {} /\ env.results = {<<3, 2, 1>>}
    /\ tasks.timers = {} /\ Len(log) = 7

(* C25: with some n of the promises in rejectList, Promise.all is         *)
(* rejected by the reaction to the first rejection, while every promise   *)
(* with a longer delay is still pending; the script then runs the catch   *)
(* block and logs null, results is never assigned, and no timer is        *)
(* dropped: each remaining one fires later and settles its promise.       *)
SomeRejected == \E i \in Idx : Delays[i] \in env.rejectList
FirstRejected ==
    CHOOSE n \in env.rejectList :
        /\ \E i \in Idx : Delays[i] = n
        /\ \A i \in Idx : Delays[i] \in env.rejectList => n <= Delays[i]
Slower(n) == {i \in Idx : Delays[i] > n}

OutcomeLine(net) ==
    IF net.network = "down" THEN Line("TypeError", 0, {})
    ELSE IF net.status \notin 200..299 THEN Line("Error", net.status, {})
    ELSE IF net.body = "invalid" THEN Line("SyntaxError", 0, {})
    ELSE Line("user", 2, {})
ExpectedLog(net) ==
    <<Line("--- Start ---", 0, {}), OutcomeLine(net), Line("--- Completed ---", 0, {})>>

C26_Equivalent ==
    /\ \A side \in {"chain", "async"} :
         /\ IsPrefix(log[side], ExpectedLog(env.net))
         /\ pc[side] = "done" => log[side] = ExpectedLog(env.net)
    /\ (pc.chain = "done" /\ pc.async = "done") => log.chain = log.async

C26_Witness ==
    /\ pc.chain = "done" /\ pc.async = "done"
    /\ env.net.network = "up" /\ env.net.status = 404 /\ env.net.body = "user"
    /\ log.chain = log.async /\ log.async[2] = Line("Error", 404, {})

(* C27: on either path "Completed" is logged exactly once, after the line *)
(* of the try or catch block and before the call returns; the success     *)
(* path returns "Returned", the failure path undefined, and result is     *)
(* "Returned" or "" accordingly.                                          *)
Completions == {k \in 1..Len(log) : log[k] = Line("Completed", 0, {})}
DoItLog(r) ==
    IF 2 * r < 100
    THEN <<Line("Fulfilled", 0, {}), Line("Completed", 0, {}), Line("result", 0, {"Returned"})>>
    ELSE <<Line("error", 1234, {"number"}), Line("Completed", 0, {}), Line("result", 0, {""})>>

C27_Finally ==
    /\ IsPrefix(log, DoItLog(env.r))
    /\ pc \in {"returned", "print", "done"} => Completions = {2}
    /\ pc \in {"try", "catch", "finally"} => (Completions = {} /\ env.result = Undefined)
    /\ pc \in {"returned", "print", "done"}
         => env.completion = IF 2 * env.r < 100 THEN {"Returned"} ELSE Undefined
    /\ pc \in {"print", "done"}
         => env.result = IF 2 * env.r < 100 THEN {"Returned"} ELSE {""}
    /\ pc = "done" => log = DoItLog(env.r)

C27_Witness ==
    /\ pc = "done" /\ env.r = 50 /\ env.completion = Undefined /\ env.result = {""}
    /\ Completions = {2} /\ log[1] = Line("error", 1234, {"number"})

(* C28: for every num in 0..99 one error is thrown, of the class of the   *)
(* first test that matches in the order 2, 3, 5; Double-, Triple- and     *)
(* QuintupleError are handled by logging their line, every other error    *)
(* is rethrown as Error("unexpected error") with the original as cause.   *)
FirstMatch(num) ==
    IF \E d \in {2, 3, 5} : num % d = 0
    THEN CHOOSE d \in {2, 3, 5} :
            /\ num % d = 0
            /\ \A d2 \in {2, 3, 5} : num % d2 = 0 => d <= d2
    ELSE 0
ClassOf(d) == CASE d = 2 -> "DoubleError" [] d = 3 -> "TripleError"
                [] d = 5 -> "QuintupleError" [] OTHER -> "SomeError"

C28_Classified ==
    /\ env.num \in 0..99
    /\ pc \in {"catch", "done", "uncaught"} => env.e.class = ClassOf(FirstMatch(env.num))
    /\ pc \in {"random", "classify"} => env.e = NoError
    /\ pc = "done"
         => /\ FirstMatch(env.num) # 0
            /\ log = <<Line("num", env.num, {}),
                       Line(ClassOf(FirstMatch(env.num)), FirstMatch(env.num), {})>>
            /\ env.uncaught = NoError
    /\ pc = "uncaught"
         => /\ FirstMatch(env.num) = 0
            /\ log = <<Line("num", env.num, {})>>
            /\ env.uncaught = [class |-> "Error", message |-> "unexpected error",
                               cause |-> "SomeError"]
    /\ pc \notin {"done", "uncaught"} => env.uncaught = NoError

C28_Witness ==
    /\ pc = "done" /\ env.num = 30 /\ env.e.class = "DoubleError"
    /\ Last(log) = Line("DoubleError", 2, {})

====
